---------------------------- MODULE Spec2Model ----------------------------
(***************************************************************************)
(* The debate loop of ai_engine.py and ai_engine.working.py: the agent     *)
(* pool, one debate cycle (run_debate_cycle), the run driver around it and *)
(* the history dump written at exit.                                       *)
(*                                                                         *)
(* Numbers: adaptability and similarity are Python floats; the model keeps *)
(* them in hundredths (0.1 is 10, 0.7 is 70, 1.0 is 100), which keeps the  *)
(* order of every comparison and the clamping that the code performs.      *)
(***************************************************************************)
EXTENDS Integers, Sequences, FiniteSets, TLC

VARIABLES
    variant,          \* which script runs: "ai_engine" or "working"
    agents,           \* DebateEngine.agents: sequence of ThoughtAgent records
    knowledge_graph,  \* DebateEngine.knowledge_graph (nx.Graph)
    debate_history,   \* DebateEngine.debate_history: sequence of <<arg1, arg2>>
    model,            \* DebateEngine.model: the similarity values it can score
    last,             \* locals of the latest run_debate_cycle that completed
    calls,            \* loop iterations so far (calls of run_debate_cycle)
    completed,        \* calls that ran to their last statement
    stdout,           \* lines printed
    figures,          \* graphs rendered by visualize(), in order
    fs,               \* files written: name -> sequence of lines
    pc                \* "loop", "done" (script ended) or "crashed" (uncaught error)

vars == <<variant, agents, knowledge_graph, debate_history, model, last,
          calls, completed, stdout, figures, fs, pc>>

---------------------------------------------------------------------------
\* Bounds of the model.

\* Agents in the pool: the first NumAgents of the eight roles.
NumAgents == 3

\* Loop iterations explored with free random draws.
MaxCycles == 2

\* Loop iterations explored in a run with a fixed stream of draws.
MaxLongCycles == 200

---------------------------------------------------------------------------
\* Program constants.

Roles == <<"Rationalist", "Chaotic", "Utopian", "Dystopian",
           "Empiricist", "Surrealist", "Nihilist", "Transhumanist">>

Topics == <<"consciousness", "free will", "AI ethics", "existential risk",
            "simulation theory", "post-humanism", "meaning of life">>

Stances1 == <<"fundamental", "illusory", "dangerous">>

Stances2 == <<"emerging", "irrelevant", "divine">>

\* random.uniform(0.3, 0.9)
AdaptabilityLow == 30

AdaptabilityHigh == 90

\* the clamp of adaptability: max(0.1, ...) and min(1.0, ...)
AdaptabilityMin == 10

AdaptabilityMax == 100

\* a.adaptability +/- 0.1
AdaptabilityStep == 10

\* if similarity > 0.7
SimilarityThreshold == 70

\* if len(debate.debate_history) % 100 == 0
ProgressEvery == 100

Variants == {"ai_engine", "working"}

ProgressLog == "debate_progress.log"

HistoryFile == "debate_history.txt"

---------------------------------------------------------------------------
\* Inputs the model draws.

\* Values random.uniform(0.3, 0.9) is drawn from: both ends of the range.
InitAdaptabilities == {AdaptabilityLow, AdaptabilityHigh}

\* Topics and stance words random.choice is drawn from with free draws.
TopicChoices == {Topics[1]}

Stance1Choices == {Stances1[1]}

Stance2Choices == {Stances2[1]}

\* Scores of the sentence-transformer model: the threshold itself and a value above.
SimValues == {SimilarityThreshold, 75}

\* Constant scores of a stubbed similarity function.
StubValues == {50, SimilarityThreshold, 75}

---------------------------------------------------------------------------
\* Helpers.

Min(a, b) == IF a < b THEN a ELSE b

Max(a, b) == IF a > b THEN a ELSE b

NoLocals == [a1 |-> 0, a2 |-> 0, arg1 |-> "", arg2 |-> "", similarity |-> 0]

\* ThoughtAgent.__init__: uuid4 ids are distinct; the model numbers them.
ThoughtAgent(i, role, adaptability) ==
    [id |-> i, role |-> role, beliefs |-> <<>>, adaptability |-> adaptability]

\* nx.Graph(): no node, no edge. An edge is the set of its two end nodes.
EmptyGraph == [nodes |-> {}, weight |-> [e \in {} |-> 0]]

\* Faulty add_edge: an edge already there keeps its first weight.
add_edge_keep_weight(g, u, v, w) ==
    [nodes  |-> g.nodes \cup {u, v},
     weight |-> [e \in DOMAIN g.weight \cup {{u, v}} |->
                    IF e \in DOMAIN g.weight THEN g.weight[e] ELSE w]]

\* nx.Graph.add_edge(u, v, weight=w): adds missing nodes, adds the edge or
\* overwrites the weight of the edge already there.
add_edge(g, u, v, w) ==
    [nodes  |-> g.nodes \cup {u, v},
     weight |-> [e \in DOMAIN g.weight \cup {{u, v}} |->
                    IF e = {u, v} THEN w ELSE g.weight[e]]]

\* The two f-strings; ai_engine.working.py ends each with a full stop.
FullStop(v) == IF v = "working" THEN "." ELSE ""

Argument1(v, role, topic, stance) ==
    role \o " argues: " \o topic \o " is " \o stance \o FullStop(v)

Argument2(v, role, topic, stance) ==
    role \o " counters: " \o topic \o " is " \o stance \o FullStop(v)

\* Faulty sampling: with replacement (random.choices), which never raises on
\* a pool of one.
SampleWithReplacement(ags) == (1..Len(ags)) \X (1..Len(ags))

\* random.sample(self.agents, 2): ordered pairs of distinct positions; empty
\* when the pool holds fewer than two (random.sample raises ValueError).
Sample(ags) ==
    {p \in (1..Len(ags)) \X (1..Len(ags)) : p[1] /= p[2]}

\* if len(self.agents) < 2: return   (ai_engine.working.py only)
SkipsCycle(v, ags) == v = "working" /\ Len(ags) < 2

\* Faulty increase: the min(1.0, ...) clamp left out.
IncreaseUnclamped(x) == x + AdaptabilityStep

\* min(1.0, a1.adaptability + 0.1)
Increase(x) == Min(AdaptabilityMax, x + AdaptabilityStep)

\* Faulty decrease: the max(0.1, ...) clamp left out.
DecreaseUnclamped(x) == x - AdaptabilityStep

\* max(0.1, a2.adaptability - 0.1)
Decrease(x) == Max(AdaptabilityMin, x - AdaptabilityStep)

\* Faulty threshold: >= in place of >.
AdoptsAtThreshold(similarity) == similarity >= SimilarityThreshold

\* if similarity > 0.7
Adopts(similarity) == similarity > SimilarityThreshold

\* Faulty evolution: both participants adopt and adjust.
EvolveBoth(ags, a1, a2, arg1, arg2, similarity) ==
    [ags EXCEPT ![a1].beliefs = Append(@, arg2),
                ![a1].adaptability = Increase(@),
                ![a2].beliefs = Append(@, arg1),
                ![a2].adaptability = Decrease(@)]

\* The agent evolution block of run_debate_cycle.
Evolve(ags, a1, a2, arg1, arg2, similarity) ==
    IF Adopts(similarity)
    THEN [ags EXCEPT ![a1].beliefs = Append(@, arg2),
                     ![a1].adaptability = Increase(@)]
    ELSE [ags EXCEPT ![a2].beliefs = Append(@, arg1),
                     ![a2].adaptability = Decrease(@)]

\* Faulty history: a pair already recorded is not recorded again.
AppendHistoryOnce(h, arg1, arg2) ==
    IF \E i \in DOMAIN h : h[i] = <<arg1, arg2>> THEN h ELSE Append(h, <<arg1, arg2>>)

\* self.debate_history.append((arg1, arg2))
AppendHistory(h, arg1, arg2) == Append(h, <<arg1, arg2>>)

\* Faulty trigger: one cycle late.
ProgressDueOffByOne(count) == count % ProgressEvery = 1

\* len(debate.debate_history) % 100 == 0
ProgressDue(count) == count % ProgressEvery = 0

ProgressLine(count) == "Debates completed: " \o ToString(count)

\* open(name, 'w') followed by writes: the file holds exactly these lines.
WriteFile(files, name, lines) ==
    [f \in DOMAIN files \cup {name} |-> IF f = name THEN lines ELSE files[f]]

\* Faulty dump: the blank line after each pair left out.
DumpWithoutBlankLine(h) ==
    [i \in 1..(2 * Len(h)) |->
        IF i % 2 = 1 THEN h[(i + 1) \div 2][1] ELSE h[i \div 2][2]]

\* for entry in debate_history: f.write(f"{entry[0]}\n{entry[1]}\n\n")
\* Entry k becomes lines 3k-2 (entry[0]), 3k-1 (entry[1]) and 3k (empty).
Dump(h) ==
    [i \in 1..(3 * Len(h)) |->
        IF i % 3 = 1 THEN h[(i + 2) \div 3][1]
        ELSE IF i % 3 = 2 THEN h[(i + 1) \div 3][2]
        ELSE ""]

\* Faulty driver: the exit code also runs after an uncaught error (try/finally).
RunningOrCrashed == pc \in {"loop", "crashed"}

\* The loop condition of the driver holds and no error has ended the script.
LoopRunning == pc = "loop"

---------------------------------------------------------------------------
\* Initial states.

\* DebateEngine.__init__ with the pool cut to its first n agents.
InitPool(n) ==
    /\ variant \in Variants
    /\ agents \in {[i \in 1..n |-> ThoughtAgent(i, Roles[i], ad[i])] :
                      ad \in [1..n -> InitAdaptabilities]}
    /\ knowledge_graph = EmptyGraph
    /\ debate_history = <<>>
    /\ last = NoLocals
    /\ calls = 0
    /\ completed = 0
    /\ stdout = <<>>
    /\ figures = <<>>
    /\ fs = IF variant = "working"
            THEN [f \in {ProgressLog} |-> <<>>]
            ELSE [f \in {} |-> <<>>]
    /\ pc = "loop"

Init ==
    /\ InitPool(NumAgents)
    /\ model = SimValues

---------------------------------------------------------------------------
\* Actions.

\* The driver's statements after run_debate_cycle returned, given the new history.
AfterCycle(h) ==
    IF ProgressDue(Len(h))
    THEN IF variant = "working"
         THEN /\ fs' = [fs EXCEPT ![ProgressLog] = Append(@, ProgressLine(Len(h)))]
              /\ UNCHANGED <<stdout, figures>>
         ELSE /\ stdout' = Append(stdout, ProgressLine(Len(h)))
              /\ figures' = Append(figures, knowledge_graph')
              /\ UNCHANGED fs
    ELSE UNCHANGED <<stdout, figures, fs>>

\* One loop iteration whose run_debate_cycle runs to its end.
RunDebateCycle(a1, a2, topic, stance1, stance2, similarity) ==
    /\ LoopRunning
    /\ ~SkipsCycle(variant, agents)
    /\ <<a1, a2>> \in Sample(agents)
    /\ similarity \in model
    /\ LET arg1 == Argument1(variant, agents[a1].role, topic, stance1)
           arg2 == Argument2(variant, agents[a2].role, topic, stance2)
           h    == AppendHistory(debate_history, arg1, arg2)
       IN  /\ knowledge_graph' = add_edge(knowledge_graph, arg1, arg2, similarity)
           /\ agents' = Evolve(agents, a1, a2, arg1, arg2, similarity)
           /\ debate_history' = h
           /\ last' = [a1 |-> a1, a2 |-> a2, arg1 |-> arg1, arg2 |-> arg2,
                       similarity |-> similarity]
           /\ AfterCycle(h)
    /\ calls' = calls + 1
    /\ completed' = completed + 1
    /\ UNCHANGED <<variant, model, pc>>

\* One loop iteration whose self.model.encode or pytorch_cos_sim raises: the
\* error is caught nowhere and ends the script.
EmbeddingFailure ==
    /\ LoopRunning
    /\ ~SkipsCycle(variant, agents)
    /\ Sample(agents) /= {}
    /\ pc' = "crashed"
    /\ calls' = calls + 1
    /\ UNCHANGED <<variant, agents, knowledge_graph, debate_history, model,
                   last, completed, stdout, figures, fs>>

\* One loop iteration of ai_engine.working.py with fewer than two agents:
\* run_debate_cycle returns at once, and the driver goes on.
CycleSkip ==
    /\ LoopRunning
    /\ SkipsCycle(variant, agents)
    /\ calls' = calls + 1
    /\ AfterCycle(debate_history)
    /\ UNCHANGED <<variant, agents, knowledge_graph, debate_history, model,
                   last, completed, pc>>

\* ai_engine.py with fewer than two agents: random.sample raises ValueError.
SampleError ==
    /\ LoopRunning
    /\ ~SkipsCycle(variant, agents)
    /\ Sample(agents) = {}
    /\ pc' = "crashed"
    /\ calls' = calls + 1
    /\ UNCHANGED <<variant, agents, knowledge_graph, debate_history, model,
                   last, completed, stdout, figures, fs>>

\* The time budget has elapsed: final visualization and history dump.
Finish ==
    /\ LoopRunning
    /\ stdout' = Append(stdout, "Final Knowledge Graph:")
    /\ figures' = Append(figures, knowledge_graph)
    /\ fs' = WriteFile(fs, HistoryFile, Dump(debate_history))
    /\ pc' = "done"
    /\ UNCHANGED <<variant, agents, knowledge_graph, debate_history, model,
                   last, calls, completed>>

FreeCycle ==
    \E p \in Sample(agents), topic \in TopicChoices,
       stance1 \in Stance1Choices, stance2 \in Stance2Choices,
       similarity \in model :
        RunDebateCycle(p[1], p[2], topic, stance1, stance2, similarity)

Next ==
    \/ calls < MaxCycles /\ FreeCycle
    \/ calls < MaxCycles /\ EmbeddingFailure
    \/ Finish

Spec == Init /\ [][Next]_vars

---------------------------------------------------------------------------
\* The same engine called with a pool of any size up to NumAgents (a caller
\* that cut DebateEngine.agents), to reach the fewer-than-two-agents paths.

InitAnyPool ==
    /\ \E n \in 0..NumAgents : InitPool(n)
    /\ model = SimValues

NextAnyPool ==
    \/ calls < MaxCycles /\ FreeCycle
    \/ calls < MaxCycles /\ EmbeddingFailure
    \/ calls < MaxCycles /\ CycleSkip
    \/ calls < MaxCycles /\ SampleError
    \/ Finish

SpecAnyPool == InitAnyPool /\ [][NextAnyPool]_vars

---------------------------------------------------------------------------
\* A long run with a seeded random module and a stubbed similarity function:
\* every draw is a fixed function of the number of the call.

SeedSample(k, ags) ==
    <<1 + (k % Len(ags)), 1 + ((k + 1) % Len(ags))>>

SeedTopic(k) == Topics[1 + (k % Len(Topics))]

SeedStance1(k) == Stances1[1 + (k % Len(Stances1))]

SeedStance2(k) == Stances2[1 + ((k \div Len(Stances1)) % Len(Stances2))]

SeededCycle ==
    \E similarity \in model :
        RunDebateCycle(SeedSample(calls, agents)[1], SeedSample(calls, agents)[2],
                       SeedTopic(calls), SeedStance1(calls), SeedStance2(calls),
                       similarity)

InitStubbed ==
    /\ InitPool(NumAgents)
    /\ model \in {{s} : s \in StubValues}

NextLong ==
    \/ calls < MaxLongCycles /\ SeededCycle
    \/ Finish

SpecLong == InitStubbed /\ [][NextLong]_vars

---------------------------------------------------------------------------
\* Reading the history file back: blocks of non-blank lines separated by blank
\* lines, each block of two lines being one (argument1, argument2) pair.

RECURSIVE Blocks(_, _)
Blocks(lines, cur) ==
    IF lines = <<>>
    THEN IF cur = <<>> THEN <<>> ELSE <<cur>>
    ELSE IF Head(lines) = ""
         THEN IF cur = <<>>
              THEN Blocks(Tail(lines), <<>>)
              ELSE <<cur>> \o Blocks(Tail(lines), <<>>)
         ELSE Blocks(Tail(lines), Append(cur, Head(lines)))

ParseHistory(lines) == Blocks(lines, <<>>)

---------------------------------------------------------------------------
\* Properties.

\* A step in which run_debate_cycle ran to its end.
CycleCompletes == completed' = completed + 1

\* A step that is one loop iteration (one call of run_debate_cycle).
CycleCalled == calls' = calls + 1

\* C1: in every reachable state every agent's adaptability is at least 0.1
\* and at most 1.0, whatever the number of cycles.
C1_AdaptabilityClamped ==
    \A i \in DOMAIN agents :
        agents[i].adaptability >= 10 /\ agents[i].adaptability <= 100

\* An agent that adopted ten times and sits on the lower clamp.
C1_Witness ==
    \E i \in DOMAIN agents :
        agents[i].adaptability = 10 /\ Len(agents[i].beliefs) >= 10

\* C2: a completed cycle mutates exactly one agent, one of the two
\* participants: its belief sequence grows by one entry at the end; every
\* other agent of the pool (the other participant included) keeps beliefs,
\* adaptability, id and role, and the pool keeps its agents.
C2_OneAgentMutated ==
    [][CycleCompletes =>
        /\ DOMAIN agents' = DOMAIN agents
        /\ \E m \in {last'.a1, last'.a2} :
              /\ Len(agents'[m].beliefs) = Len(agents[m].beliefs) + 1
              /\ SubSeq(agents'[m].beliefs, 1, Len(agents[m].beliefs))
                    = agents[m].beliefs
              /\ agents'[m].id = agents[m].id
              /\ agents'[m].role = agents[m].role
              /\ \A i \in DOMAIN agents \ {m} : agents'[i] = agents[i]]_vars

\* After one cycle of a pool of three or more: one agent holds one belief, the
\* other participant and the bystanders hold none and their drawn adaptability.
C2_Witness ==
    /\ completed = 1
    /\ Len(agents) >= 3
    /\ Cardinality({i \in DOMAIN agents : agents[i].beliefs /= <<>>}) = 1
    /\ \E i \in {last.a1, last.a2} :
          /\ agents[i].beliefs = <<>>
          /\ agents[i].adaptability \in InitAdaptabilities

\* C3 as stated: in every completed cycle exactly one of the two
\* participants' adaptability values changes, and the adopting agent's value
\* always differs from its value before the cycle (also at 1.0 and at 0.1).
C3_AdopterAlwaysChanges ==
    [][CycleCompletes =>
        /\ Cardinality({i \in {last'.a1, last'.a2} :
                agents'[i].adaptability /= agents[i].adaptability}) = 1
        /\ \A i \in DOMAIN agents :
              agents'[i].beliefs /= agents[i].beliefs
                 => agents'[i].adaptability /= agents[i].adaptability]_vars

\* C3 amended: in every completed cycle only the adopting agent's adaptability
\* can change, and it changes exactly when it was not already on the clamp it
\* moves towards (1.0 when similarity > 0.7, 0.1 otherwise).
C3_AdopterChangesUnlessAtBound ==
    [][CycleCompletes =>
        \A i \in DOMAIN agents :
            IF agents'[i].beliefs /= agents[i].beliefs
            THEN (agents'[i].adaptability /= agents[i].adaptability)
                    <=> (agents[i].adaptability
                            /= (IF last'.similarity > 70 THEN 100 ELSE 10))
            ELSE agents'[i].adaptability = agents[i].adaptability]_vars

\* The agent that adopted in both of two cycles on the increase branch and is
\* at 1.0: drawn at 0.9, it reached 1.0 in the first and kept it in the second.
C3_Witness ==
    /\ completed = 2
    /\ last.similarity > 70
    /\ agents[last.a1].adaptability = 100
    /\ Len(agents[last.a1].beliefs) = 2
    /\ \A i \in DOMAIN agents \ {last.a1} : agents[i].beliefs = <<>>

\* C4: the history is append-only and as long as the number of completed
\* cycles: a completed cycle appends its (argument1, argument2) pair at the
\* end, and every other step (a skipped cycle included) leaves it as it is.
C4_HistoryAppendOnly ==
    /\ [](Len(debate_history) = completed)
    /\ [][IF CycleCompletes
          THEN debate_history' = Append(debate_history, <<last'.arg1, last'.arg2>>)
          ELSE debate_history' = debate_history]_vars

\* Two completed cycles that produced the same pair: both are in the history.
C4_Witness ==
    /\ completed = 2
    /\ Len(debate_history) = 2
    /\ debate_history[1] = debate_history[2]

HistoryPairs == {debate_history[i] : i \in DOMAIN debate_history}

\* C5: the edges of the graph are the distinct pairs of the history, one edge
\* per distinct pair, so at most as many as the history is long; a completed
\* cycle sets the weight of its pair's edge to its similarity, adds neither an
\* edge nor a node when the pair is already there, and no step removes an
\* edge or changes another edge's weight.
C5_EdgesAreDistinctPairs ==
    /\ [](/\ DOMAIN knowledge_graph.weight
                = {{p[1], p[2]} : p \in HistoryPairs}
          /\ Cardinality(DOMAIN knowledge_graph.weight)
                = Cardinality(HistoryPairs)
          /\ Cardinality(DOMAIN knowledge_graph.weight) <= Len(debate_history)
          /\ knowledge_graph.nodes
                = UNION {{p[1], p[2]} : p \in HistoryPairs})
    /\ [][/\ \A e \in DOMAIN knowledge_graph.weight :
                /\ e \in DOMAIN knowledge_graph'.weight
                /\ (~CycleCompletes \/ e /= {last'.arg1, last'.arg2})
                      => knowledge_graph'.weight[e] = knowledge_graph.weight[e]
          /\ CycleCompletes =>
                LET e == {last'.arg1, last'.arg2}
                IN  /\ knowledge_graph'.weight[e] = last'.similarity
                    /\ e \in DOMAIN knowledge_graph.weight
                          => /\ DOMAIN knowledge_graph'.weight
                                   = DOMAIN knowledge_graph.weight
                             /\ knowledge_graph'.nodes = knowledge_graph.nodes]_vars

\* The same pair debated twice: one edge, two nodes, the weight of the second cycle.
C5_Witness ==
    /\ Len(debate_history) = 2
    /\ debate_history[1] = debate_history[2]
    /\ Cardinality(DOMAIN knowledge_graph.weight) = 1
    /\ Cardinality(knowledge_graph.nodes) = 2
    /\ knowledge_graph.weight[{last.arg1, last.arg2}] = last.similarity

\* C6: the rule is decided by similarity > 0.7, strictly: then agent1 appends
\* argument2 and its adaptability becomes min(1.0, old + 0.1); otherwise (0.7
\* itself included) agent2 appends argument1 and its adaptability becomes
\* max(0.1, old - 0.1). With the similarity stubbed to 0.75 every cycle takes
\* the first branch, with 0.5 every cycle takes the second.
C6_EvolutionRule ==
    [][CycleCompletes =>
        LET a1 == last'.a1
            a2 == last'.a2
            up == IF agents[a1].adaptability + 10 > 100
                  THEN 100 ELSE agents[a1].adaptability + 10
            down == IF agents[a2].adaptability - 10 < 10
                    THEN 10 ELSE agents[a2].adaptability - 10
        IN  /\ last'.similarity \in model
            /\ IF last'.similarity > 70
               THEN agents' = [agents EXCEPT
                                 ![a1].beliefs = Append(@, last'.arg2),
                                 ![a1].adaptability = up]
               ELSE agents' = [agents EXCEPT
                                 ![a2].beliefs = Append(@, last'.arg1),
                                 ![a2].adaptability = down]
            /\ model = {75} => /\ agents'[a1].beliefs /= agents[a1].beliefs
                               /\ agents'[a2] = agents[a2]
            /\ model = {50} => /\ agents'[a2].beliefs /= agents[a2].beliefs
                               /\ agents'[a1] = agents[a1]]_vars

\* A first cycle scored exactly 0.7: agent2 adopted argument1 and went one
\* step down, agent1 adopted nothing.
C6_Witness ==
    /\ model = {70}
    /\ completed = 1
    /\ last.similarity = 70
    /\ agents[last.a2].beliefs = <<last.arg1>>
    /\ agents[last.a2].adaptability \in {20, 80}
    /\ agents[last.a1].beliefs = <<>>

\* C7: the history file written at exit reads back, block by block, to the
\* history in memory: same length, same order, same pair at every position.
C7_HistoryRoundTrip ==
    pc = "done" =>
        /\ HistoryFile \in DOMAIN fs
        /\ ParseHistory(fs[HistoryFile]) = debate_history

\* A finished run of two cycles with two different pairs.
C7_Witness ==
    /\ pc = "done"
    /\ Len(debate_history) = 2
    /\ debate_history[1] /= debate_history[2]
    /\ Len(fs[HistoryFile]) = 6

ProgressRecords == Len(stdout) + (IF ProgressLog \in DOMAIN fs THEN Len(fs[ProgressLog]) ELSE 0)

\* C8 as stated: in both scripts, a loop iteration that brings the number of
\* completed cycles to a positive multiple of 100 produces exactly one
\* visualization and exactly one progress record, and every other loop
\* iteration produces neither.
C8_BothEveryHundred ==
    [][CycleCalled =>
        IF completed' /= completed /\ completed' > 0 /\ completed' % 100 = 0
        THEN /\ Len(figures') = Len(figures) + 1
             /\ ProgressRecords' = ProgressRecords + 1
        ELSE /\ figures' = figures
             /\ ProgressRecords' = ProgressRecords]_vars

\* C8 amended: a loop iteration that brings the number of completed cycles to
\* a positive multiple of 100 prints one progress line and renders the graph
\* once in ai_engine.py, and appends one line to the progress log and renders
\* nothing in ai_engine.working.py; every other loop iteration that completes
\* a cycle produces none of these.
C8_EveryHundredPerVariant ==
    [][CycleCompletes =>
        IF completed' % 100 = 0
        THEN IF variant = "ai_engine"
             THEN /\ stdout' = Append(stdout,
                                  "Debates completed: " \o ToString(completed'))
                  /\ figures' = Append(figures, knowledge_graph')
                  /\ fs' = fs
             ELSE /\ fs' = [fs EXCEPT ![ProgressLog] = Append(@,
                                  "Debates completed: " \o ToString(completed'))]
                  /\ figures' = figures
                  /\ stdout' = stdout
        ELSE /\ stdout' = stdout
             /\ figures' = figures
             /\ fs' = fs]_vars

\* ai_engine.working.py after 200 cycles: two log lines and no figure.
C8_Witness ==
    /\ variant = "working"
    /\ pc = "loop"
    /\ completed = 200
    /\ fs[ProgressLog] = <<"Debates completed: 100", "Debates completed: 200">>
    /\ figures = <<>>
    /\ stdout = <<>>

\* C9: a call of run_debate_cycle with fewer than two agents changes neither
\* the agents nor the graph nor the history: ai_engine.working.py returns and
\* the loop goes on, ai_engine.py ends with the sampling error.
C9_TooFewAgentsNoChange ==
    [][(CycleCalled /\ Len(agents) < 2) =>
        /\ agents' = agents
        /\ knowledge_graph' = knowledge_graph
        /\ debate_history' = debate_history
        /\ completed' = completed
        /\ variant = "working" => pc' = "loop"
        /\ variant = "ai_engine" => pc' = "crashed"]_vars

\* ai_engine.py called once with a pool of one agent.
C9_Witness ==
    /\ variant = "ai_engine"
    /\ Len(agents) = 1
    /\ calls = 1
    /\ pc = "crashed"
    /\ agents[1].beliefs = <<>>
    /\ debate_history = <<>>

\* C10: a cycle whose embedding or similarity call fails adds no edge, no
\* belief, no history entry and changes no adaptability, and it ends the run:
\* no step follows it, so neither a later cycle nor the final visualization
\* nor the history dump happens.
C10_EmbeddingFailureIsFatal ==
    [][/\ pc /= "crashed"
       /\ pc' = "crashed" =>
            /\ CycleCalled
            /\ UNCHANGED <<agents, knowledge_graph, debate_history, completed,
                           figures, stdout, fs>>
            /\ HistoryFile \notin DOMAIN fs']_vars

\* A run that completed one cycle and failed in the second.
C10_Witness ==
    /\ pc = "crashed"
    /\ calls = 2
    /\ completed = 1
    /\ Len(debate_history) = 1
    /\ HistoryFile \notin DOMAIN fs

===========================================================================
